---- MODULE Spec2Model ----
(***************************************************************************)
(* CloudPaste: the WebDAV method engine (PROPFIND, GET/HEAD, PUT, DELETE,  *)
(* MKCOL) over an S3-compatible object store, its mount resolution and its *)
(* storage-key composition.                                                *)
(*                                                                         *)
(* Strings are sequences of one-character strings, so that startsWith,     *)
(* endsWith, substring and the slash-collapsing replace of the JavaScript  *)
(* source are computed character by character.                             *)
(***************************************************************************)
EXTENDS Integers, Sequences, FiniteSets, TLC

VARIABLES
    kin,        \* key composition: the inputs (default_folder, mount_path, subPath)
    kout,       \* key composition: what the handlers computed from kin
    rin,        \* mount resolution: the visible mounts (in database order) and the request path
    rout,       \* mount resolution: what handlePropfind resolved
    store,      \* the bucket: object key -> size, for the keys that exist
    sessions,   \* multipart upload sessions: uploadId -> "open" | "completed" | "aborted"
    req,        \* the request that has arrived and waits for its handler
    put,        \* the PUT request in flight (its position in handlePut)
    resp,       \* the response of the last finished request, with what the handler did
    file,       \* the shared file's row of the files table (views, max_views, ...)
    dl,         \* the download requests for its slug: each one's position and answer
    quota,      \* the storage configuration the uploads go to (its capacity limit)
    filesTable, \* the rows of the files table that belong to one storage configuration
    up,         \* the upload clients: each one's position, last request and answer
    guard,      \* the worker's module-level initialization state and its runs
    conn        \* the requests entering the worker's fetch: each one's position and answer

keyVars == <<kin, kout>>
resVars == <<rin, rout>>
davVars == <<store, sessions, req, put, resp>>
viewVars == <<file, dl>>
upVars == <<quota, filesTable, up>>
bootVars == <<guard, conn>>
vars == <<kin, kout, rin, rout, store, sessions, req, put, resp, file, dl, quota, filesTable, up, guard, conn>>

(***************************************************************************)
(* JavaScript string primitives                                            *)
(***************************************************************************)
SL == "/"

Empty == << >>

\* s.startsWith(p)
StartsWith(s, p) == Len(s) >= Len(p) /\ SubSeq(s, 1, Len(p)) = p

\* s.endsWith(p)
EndsWith(s, p) == Len(s) >= Len(p) /\ SubSeq(s, Len(s) - Len(p) + 1, Len(s)) = p

\* s.substring(n) (n counted from 0)
Substring(s, n) == IF n >= Len(s) THEN Empty ELSE SubSeq(s, n + 1, Len(s))

\* s.slice(0, -1)
DropLast(s) == IF Len(s) = 0 THEN Empty ELSE SubSeq(s, 1, Len(s) - 1)

\* s.includes("/")
HasSlash(s) == \E i \in 1..Len(s) : s[i] = SL

\* s.lastIndexOf("/") + 1 (0 when s holds no slash)
LastSlash(s) == IF HasSlash(s) THEN CHOOSE i \in 1..Len(s) : s[i] = SL /\ \A j \in (i+1)..Len(s) : s[j] # SL
                ELSE 0

\* repeated slashes left as they are
CollapseSlashesMutant(s) == s

\* s.replace(/\/+/g, "/")
RECURSIVE CollapseSlashes(_)
CollapseSlashes(s) ==
    IF Len(s) <= 1 THEN s
    ELSE IF s[1] = SL /\ s[2] = SL THEN CollapseSlashes(Tail(s))
    ELSE <<s[1]>> \o CollapseSlashes(Tail(s))

\* s.split("/").filter(Boolean): the non-empty segments of s
RECURSIVE Segments(_)
Segments(s) ==
    IF s = Empty THEN << >>
    ELSE IF s[1] = SL THEN Segments(Tail(s))
    ELSE LET n == IF HasSlash(s) THEN (CHOOSE i \in 1..Len(s) : s[i] = SL /\ \A j \in 1..(i-1) : s[j] # SL) - 1
                  ELSE Len(s)
         IN  <<SubSeq(s, 1, n)>> \o Segments(Substring(s, n))

\* parts.join("/")
RECURSIVE JoinSlash(_)
JoinSlash(parts) ==
    IF parts = << >> THEN Empty
    ELSE IF Len(parts) = 1 THEN parts[1]
    ELSE parts[1] \o <<SL>> \o JoinSlash(Tail(parts))

\* strip one leading slash: if (s.startsWith('/')) s = s.substring(1)
StripLeading(s) == IF StartsWith(s, <<SL>>) THEN Substring(s, 1) ELSE s

(***************************************************************************)
(* Storage key composition, one operator per handler                       *)
(***************************************************************************)

\* let key = ""; if (default_folder) { key = default_folder; if (!key.endsWith('/')) key += '/' }
BasePrefix(df) == IF df = Empty THEN Empty
                  ELSE IF EndsWith(df, <<SL>>) THEN df ELSE df \o <<SL>>

\* the mount segment appended by PUT, DELETE and MKCOL: always with a trailing slash
MountSegmentSlashed(base, mp) ==
    LET seg == StripLeading(mp) IN
    IF seg # Empty /\ seg # <<SL>>
    THEN (IF ~EndsWith(base, <<SL>>) /\ base # Empty THEN base \o <<SL>> ELSE base)
         \o seg \o (IF EndsWith(seg, <<SL>>) THEN Empty ELSE <<SL>>)
    ELSE base

\* if (key.startsWith('/') && key !== "/") key = key.substring(1)
StripLeadingUnlessRoot(k) == IF StartsWith(k, <<SL>>) /\ k # <<SL>> THEN Substring(k, 1) ELSE k

\* if (key.endsWith('/') && key !== '/') key = key.slice(0, -1)
StripTrailingUnlessRoot(k) == IF EndsWith(k, <<SL>>) /\ k # <<SL>> THEN DropLast(k) ELSE k

\* handlePut: finalS3ObjectKey
PutObjectKey(df, mp, sub) ==
    LET base == MountSegmentSlashed(BasePrefix(df), mp)
        s1   == StripLeading(sub)
        s2   == IF EndsWith(s1, <<SL>>) THEN DropLast(s1) ELSE s1
    IN  StripLeadingUnlessRoot(CollapseSlashes(base \o s2))

\* handlePut: if (!finalS3ObjectKey || finalS3ObjectKey.endsWith('/')) the request is refused
PutKeyValid(k) == k # Empty /\ ~EndsWith(k, <<SL>>)

\* handleGet: finalS3ObjectKey
GetObjectKey(df, mp, sub) ==
    LET b0   == BasePrefix(df)
        seg  == StripLeading(mp)
        b1   == IF seg # Empty /\ seg # <<SL>>
                THEN (IF ~EndsWith(b0, <<SL>>) /\ b0 # Empty THEN b0 \o <<SL>> ELSE b0) \o seg
                ELSE b0
        s1   == StripLeading(sub)
        b2   == IF b1 # Empty /\ s1 # Empty THEN b1 \o <<SL>> ELSE b1
    IN  StripLeadingUnlessRoot(StripTrailingUnlessRoot(CollapseSlashes(b2 \o s1)))

\* handleDelete: finalS3Path (isDir: the WebDAV path ends with '/')
DeletePath(df, mp, sub, isDir) ==
    LET base == MountSegmentSlashed(BasePrefix(df), mp)
        k1   == StripLeadingUnlessRoot(CollapseSlashes(base \o StripLeading(sub)))
    IN  IF isDir
        THEN (IF k1 # Empty /\ ~EndsWith(k1, <<SL>>) THEN k1 \o <<SL>> ELSE k1)
        ELSE StripTrailingUnlessRoot(k1)

\* handleMkcol: finalS3DirectoryKey
MkcolDirectoryKey(df, mp, sub) ==
    LET b1   == MountSegmentSlashed(BasePrefix(df), mp)
        s1   == StripLeading(sub)
        s2   == IF s1 # Empty /\ ~EndsWith(s1, <<SL>>) THEN s1 \o <<SL>> ELSE s1
        b2   == IF s1 = Empty /\ sub = <<SL>> /\ ~EndsWith(b1, <<SL>>) /\ b1 # Empty
                THEN b1 \o <<SL>> ELSE b1
    IN  StripLeadingUnlessRoot(CollapseSlashes(b2 \o s2))

\* handlePropfind: s3QueryPrefix (the leading-slash strip is commented out in the source)
PropfindQueryPrefix(df, mp, sub) ==
    LET b0   == BasePrefix(df)
        seg0 == StripLeading(mp)
        seg  == IF seg0 # Empty /\ ~EndsWith(seg0, <<SL>>) THEN seg0 \o <<SL>> ELSE seg0
    IN  CollapseSlashes(b0 \o seg \o StripLeading(sub))

(***************************************************************************)
(* Mount resolution                                                        *)
(***************************************************************************)

\* path = path.startsWith("/") ? path : "/" + path
EnsureLeadingSlash(p) == IF StartsWith(p, <<SL>>) THEN p ELSE <<SL>> \o p

\* path = path.endsWith("/") ? path : path + "/"
EnsureTrailingSlash(p) == IF EndsWith(p, <<SL>>) THEN p ELSE p \o <<SL>>

\* handlePropfind normalizes the request path to a collection path
CollectionPath(p) == EnsureTrailingSlash(EnsureLeadingSlash(p))

\* mounts.sort((a, b) => b.mount_path.length - a.mount_path.length): a stable sort,
\* longest mount path first
RECURSIVE InsertByLength(_, _)
InsertByLength(sorted, m) ==
    IF sorted = << >> THEN <<m>>
    ELSE IF Len(m) > Len(sorted[1]) THEN <<m>> \o sorted
    ELSE <<sorted[1]>> \o InsertByLength(Tail(sorted), m)

RECURSIVE SortByLengthDesc(_)
SortByLengthDesc(ms) ==
    IF ms = << >> THEN << >>
    ELSE InsertByLength(SortByLengthDesc(DropLast(ms)), ms[Len(ms)])

NoMount == [found |-> FALSE, mount |-> Empty, subPath |-> Empty]

\* a match test on characters, blind to segment boundaries
PropfindMatchesMutant(path, mp) == StartsWith(path, EnsureLeadingSlash(mp))

\* propfind.js: the match test of the loop over the sorted mounts
PropfindMatches(path, mp) ==
    LET mountPathForCheck     == EnsureLeadingSlash(mp)
        mountPathWithSlash    == EnsureTrailingSlash(mountPathForCheck)
        mountPathWithoutSlash == IF EndsWith(mountPathForCheck, <<SL>>) THEN DropLast(mountPathForCheck)
                                 ELSE mountPathForCheck
    IN  path = mountPathWithSlash
        \/ (mountPathWithoutSlash # <<SL>> /\ StartsWith(path, mountPathWithSlash))

\* propfind.js: subPath = path.substring(mountPathForCheck.length), "/" when empty,
\* forced to start with "/"
PropfindSubPath(path, mp) ==
    LET s == Substring(path, Len(EnsureLeadingSlash(mp)))
    IN  IF s = Empty THEN <<SL>> ELSE EnsureLeadingSlash(s)

RECURSIVE PropfindFirstMatch(_, _)
PropfindFirstMatch(sorted, path) ==
    IF sorted = << >> THEN NoMount
    ELSE IF PropfindMatches(path, sorted[1])
         THEN [found |-> TRUE, mount |-> sorted[1], subPath |-> PropfindSubPath(path, sorted[1])]
         ELSE PropfindFirstMatch(Tail(sorted), path)

\* propfind.js handlePropfind: the mount and sub-path of a request path
PropfindResolve(mounts, reqPath) == PropfindFirstMatch(SortByLengthDesc(mounts), CollectionPath(reqPath))

\* the other handlePropfind of the repository: its match test
DraftMatches(path, mp) ==
    LET mountPathForCheck == EnsureLeadingSlash(mp)
    IN  path = mountPathForCheck \o <<SL>> \/ StartsWith(path, mountPathForCheck \o <<SL>>)

DraftSubPath(path, mp) == EnsureLeadingSlash(Substring(path, Len(EnsureLeadingSlash(mp))))

RECURSIVE DraftFirstMatch(_, _)
DraftFirstMatch(sorted, path) ==
    IF sorted = << >> THEN NoMount
    ELSE IF DraftMatches(path, sorted[1])
         THEN [found |-> TRUE, mount |-> sorted[1], subPath |-> DraftSubPath(path, sorted[1])]
         ELSE DraftFirstMatch(Tail(sorted), path)

DraftResolve(mounts, reqPath) == DraftFirstMatch(SortByLengthDesc(mounts), CollectionPath(reqPath))

(***************************************************************************)
(* The synthetic listing of a path no mount resolves                       *)
(***************************************************************************)
\* a first segment that is the whole relative path
FirstSegmentMutant(s) == s

\* relativePath.split("/")[0]
RECURSIVE FirstSegment(_)
FirstSegment(s) ==
    IF s = Empty \/ s[1] = SL THEN Empty ELSE <<s[1]>> \o FirstSegment(Tail(s))

\* getDirectoryStructure(mounts, currentPath)
GetDirectoryStructure(mounts, cur) ==
    LET currentPath == CollectionPath(cur)
        here(m)     == EnsureLeadingSlash(m) \o <<SL>> = currentPath
                       \/ EnsureLeadingSlash(m) = currentPath
        below       == { mounts[i] : i \in { j \in 1..Len(mounts) :
                            /\ ~here(mounts[j])
                            /\ StartsWith(EnsureLeadingSlash(mounts[j]), currentPath) } }
    IN  [directories |-> { FirstSegment(Substring(EnsureLeadingSlash(m), Len(currentPath))) : m \in below }
                            \ {Empty},
         mounts      |-> { mounts[i] : i \in { j \in 1..Len(mounts) : here(mounts[j]) } }]

\* respondWithMounts: the child collections rendered for a virtual path
RespondWithMounts(mounts, path) ==
    LET p         == CollectionPath(path)
        structure == GetDirectoryStructure(mounts, p)
        listed(m) == LET rel == Substring(EnsureLeadingSlash(m), Len(p))
                     IN  ~HasSlash(rel) \/ rel = Empty
    IN  [directories |-> structure.directories,
         mounts      |-> { m \in structure.mounts : listed(m) }]

(***************************************************************************)
(* Bounds and input universes                                              *)
(***************************************************************************)
\* how many extra slashes the inputs carry before and after a name
MaxSlashes == 2

\* how many mounts are visible to the caller
MaxMounts == 3

RECURSIVE Slashes(_)
Slashes(n) == IF n <= 0 THEN Empty ELSE <<SL>> \o Slashes(n - 1)

SlashVariants(core) == { Slashes(i) \o core \o Slashes(j) : i, j \in 0..MaxSlashes }

S_data  == <<"d", "a", "t", "a">>
S_files == <<"f", "i", "l", "e", "s">>
S_xy    == <<"/", "x", "/", "y", ".", "t", "x", "t">>
S_key   == S_data \o <<SL>> \o S_files \o S_xy

DefaultFolders == {Empty} \cup { Slashes(i) : i \in 1..MaxSlashes } \cup SlashVariants(S_data)

MountPaths == {<<SL>>} \cup SlashVariants(S_files)

SubPaths == { <<SL>>, S_xy, <<"/", "x", "/">>, <<"/", "x">>, <<"/", "/", "x">>, <<"/", "/">> }

KeyInputs == [df : DefaultFolders, mp : MountPaths, sub : SubPaths]

NoKey == [op |-> "none", key |-> Empty, sent |-> FALSE]

(***************************************************************************)
(* Key composition as a state machine: each handler composes its key from  *)
(* the current inputs; sent tells whether the handler goes on to send the  *)
(* key to the backend.                                                     *)
(***************************************************************************)
KeyInit == kin \in KeyInputs /\ kout = NoKey

KeyParked == kin = [df |-> Empty, mp |-> <<SL>>, sub |-> <<SL>>] /\ kout = NoKey

ComposePut ==
    LET k == PutObjectKey(kin.df, kin.mp, kin.sub) IN
    /\ kout' = [op |-> "put", key |-> k, sent |-> PutKeyValid(k)]
    /\ UNCHANGED <<kin, resVars, davVars, viewVars, upVars, bootVars>>

ComposeGet ==
    LET k == GetObjectKey(kin.df, kin.mp, kin.sub) IN
    /\ kout' = [op |-> "get", key |-> k, sent |-> k # Empty]
    /\ UNCHANGED <<kin, resVars, davVars, viewVars, upVars, bootVars>>

\* handleDelete refuses subPath "/" (the mount root) before it composes a key
ComposeDeleteFile ==
    LET k == DeletePath(kin.df, kin.mp, kin.sub, FALSE) IN
    /\ kout' = [op |-> "deleteFile", key |-> k, sent |-> kin.sub # <<SL>> /\ k # Empty]
    /\ UNCHANGED <<kin, resVars, davVars, viewVars, upVars, bootVars>>

ComposeDeleteDir ==
    LET k == DeletePath(kin.df, kin.mp, kin.sub, TRUE) IN
    /\ kout' = [op |-> "deleteDir", key |-> k, sent |-> kin.sub # <<SL>> /\ k # Empty]
    /\ UNCHANGED <<kin, resVars, davVars, viewVars, upVars, bootVars>>

\* handleMkcol answers a request for the mount root without using the key
ComposeMkcol ==
    LET k == MkcolDirectoryKey(kin.df, kin.mp, kin.sub) IN
    /\ kout' = [op |-> "mkcol", key |-> k,
                sent |-> kin.sub # <<SL>> /\ k # Empty /\ EndsWith(k, <<SL>>)]
    /\ UNCHANGED <<kin, resVars, davVars, viewVars, upVars, bootVars>>

\* handlePropfind lists whatever prefix it composed; its subPath is a collection path
ComposePropfind ==
    LET k == PropfindQueryPrefix(kin.df, kin.mp, EnsureTrailingSlash(kin.sub)) IN
    /\ kout' = [op |-> "propfind", key |-> k, sent |-> TRUE]
    /\ UNCHANGED <<kin, resVars, davVars, viewVars, upVars, bootVars>>

KeyNext ==
    \/ ComposePut
    \/ ComposeGet
    \/ ComposeDeleteFile
    \/ ComposeDeleteDir
    \/ ComposeMkcol
    \/ ComposePropfind

(***************************************************************************)
(* Mount resolution as a state machine                                     *)
(***************************************************************************)
P_root == <<SL>>
P_a    == <<"/", "a">>
P_ab   == <<"/", "a", "/", "b">>
P_abc  == <<"/", "a", "/", "b", "/", "c">>
P_ax   == <<"/", "a", "b">>
P_axc  == <<"/", "a", "b", "/", "c">>
P_c    == <<"/", "c">>

\* mount paths as the mount table keeps them: a leading slash, no trailing slash
\* except for the root mount
MountUniverse == { P_root, P_a, P_ab, P_axc, P_c }

RequestPaths == { P_root, P_a, P_a \o <<SL>>, P_ab, P_ab \o <<SL>>, P_abc, P_abc \o <<SL>>,
                  P_ax, P_axc, P_c \o <<SL>> \o <<"a">>, <<"/", "x">> }

\* the database returns the visible mounts in any order; mount paths are unique
MountLists == { ms \in UNION { [1..n -> MountUniverse] : n \in 0..MaxMounts } :
                  \A i, j \in 1..Len(ms) : i # j => ms[i] # ms[j] }

ResInputs == [mounts : MountLists, path : RequestPaths]

NoResolution ==
    [impl |-> "none", found |-> FALSE, mount |-> Empty, subPath |-> Empty,
     status |-> 0, self |-> Empty, directories |-> {}, listedMounts |-> {}]

\* what handlePropfind does with a resolution: a path no mount resolves is answered by
\* respondWithMounts (207, self entry, one collection per directory and listed mount);
\* a resolved path goes on to the backend listing (handlePropfind)
Resolved(impl, r, mounts, path) ==
    LET virt == RespondWithMounts(mounts, path) IN
    [impl |-> impl, found |-> r.found, mount |-> r.mount, subPath |-> r.subPath,
     status |-> IF r.found THEN 0 ELSE 207,
     self |-> IF r.found THEN Empty ELSE CollectionPath(path),
     directories |-> IF r.found THEN {} ELSE virt.directories,
     listedMounts |-> IF r.found THEN {} ELSE virt.mounts]

ResInit == rin \in ResInputs /\ rout = NoResolution

ResParked == rin = [mounts |-> << >>, path |-> <<SL>>] /\ rout = NoResolution

ResolvePropfind ==
    LET r == PropfindResolve(rin.mounts, rin.path) IN
    /\ rout' = Resolved("propfind", r, rin.mounts, rin.path)
    /\ UNCHANGED <<rin, keyVars, davVars, viewVars, upVars, bootVars>>

ResolveDraft ==
    LET r == DraftResolve(rin.mounts, rin.path) IN
    /\ rout' = Resolved("draft", r, rin.mounts, rin.path)
    /\ UNCHANGED <<rin, keyVars, davVars, viewVars, upVars, bootVars>>

ResNext ==
    \/ ResolvePropfind
    \/ ResolveDraft

(***************************************************************************)
(* The object store (S3) as the handlers see it                            *)
(***************************************************************************)
\* the characters of the modelled keys, in byte order (the order S3 lists keys in)
Alphabet == <<"/", "d", "f", "g", "s", "t", "x", "y">>

CharRank(c) == CHOOSE i \in 1..Len(Alphabet) : Alphabet[i] = c

RECURSIVE LexLess(_, _)
LexLess(a, b) ==
    IF b = Empty THEN FALSE
    ELSE IF a = Empty THEN TRUE
    ELSE IF a[1] = b[1] THEN LexLess(Tail(a), Tail(b))
    ELSE CharRank(a[1]) < CharRank(b[1])

RECURSIVE SortedKeys(_)
SortedKeys(S) ==
    IF S = {} THEN << >>
    ELSE LET m == CHOOSE k \in S : \A o \in S \ {k} : LexLess(k, o)
         IN  <<m>> \o SortedKeys(S \ {m})

\* entries of one backend listing page: stands for the 1000 keys S3 returns per
\* ListObjectsV2 call when MaxKeys is not given, scaled down
ListPageSize == 2

\* keys per DeleteObjects request: stands for batchSize = 1000 of handleDelete, scaled down
DeleteBatchSize == 2

KeysOf(st) == DOMAIN st

KeysWithPrefix(st, prefix) == { k \in KeysOf(st) : StartsWith(k, prefix) }

FirstN(q, n) == IF Len(q) <= n THEN q ELSE SubSeq(q, 1, n)

\* ListObjectsV2 {Prefix, ContinuationToken} without delimiter: one page of keys, in key order
ListPage(st, prefix, token) ==
    LET all  == SortedKeys({ k \in KeysWithPrefix(st, prefix) : token = Empty \/ LexLess(token, k) })
        page == FirstN(all, ListPageSize)
    IN  [contents  |-> page,
         truncated |-> Len(all) > ListPageSize,
         next      |-> IF Len(all) > ListPageSize THEN page[Len(page)] ELSE Empty]

\* ListObjectsV2 {Prefix, Delimiter: "/"}: keys below the prefix that hold a further
\* slash are rolled up into common prefixes; one page of entries, in key order
RollUp(prefix, k) ==
    LET rest == Substring(k, Len(prefix)) IN
    IF HasSlash(rest)
    THEN LET i == CHOOSE j \in 1..Len(rest) : rest[j] = SL /\ \A h \in 1..(j-1) : rest[h] # SL
         IN  prefix \o SubSeq(rest, 1, i)
    ELSE k

IsRolledUp(prefix, k) == HasSlash(Substring(k, Len(prefix)))

ListDelimited(st, prefix) ==
    LET keys    == KeysWithPrefix(st, prefix)
        entries == SortedKeys({ RollUp(prefix, k) : k \in keys })
        page    == FirstN(entries, ListPageSize)
        inPage  == { page[i] : i \in 1..Len(page) }
    IN  [contents       |-> { k \in keys : ~IsRolledUp(prefix, k) /\ k \in inPage },
         commonPrefixes |-> { RollUp(prefix, k) : k \in { x \in keys : IsRolledUp(prefix, x)
                                                               /\ RollUp(prefix, x) \in inPage } },
         truncated      |-> Len(entries) > ListPageSize]

\* checkDirectoryExists(s3Client, bucket, prefix): "checks for *any* object OR explicit marker"
CheckDirectoryExists(st, prefix) == KeysWithPrefix(st, prefix) # {}

\* the store without the keys of ks
RemoveKeys(st, ks) == [k \in KeysOf(st) \ ks |-> st[k]]

\* PutObject
PutKey(st, k, size) == [x \in KeysOf(st) \cup {k} |-> IF x = k THEN size ELSE st[x]]

(***************************************************************************)
(* findMountPointByPath                                                    *)
(***************************************************************************)
FindMatches(path, mp) ==
    path = mp \/ path = EnsureTrailingSlash(mp) \/ StartsWith(path, mp \o <<SL>>)

FindSubPath(path, mp) ==
    IF path = mp \/ path = EnsureTrailingSlash(mp) THEN <<SL>>
    ELSE EnsureLeadingSlash(Substring(path, Len(mp)))

RECURSIVE FindFirstMatch(_, _)
FindFirstMatch(sorted, path) ==
    IF sorted = << >> THEN NoMount
    ELSE IF FindMatches(path, sorted[1])
         THEN [found |-> TRUE, mount |-> sorted[1], subPath |-> FindSubPath(path, sorted[1])]
         ELSE FindFirstMatch(Tail(sorted), path)

FindMountPointByPath(mounts, path) == FindFirstMatch(SortByLengthDesc(mounts), path)

(***************************************************************************)
(* The WebDAV engine: one storage configuration, one mount                 *)
(***************************************************************************)
DavFolder == <<"d">>
DavMount  == <<"/", "f">>
DavMounts == <<DavMount>>

K_f   == <<"d", "/", "f", "/">>
K_x   == K_f \o <<"x">>
K_s   == K_f \o <<"s", "/">>
K_sx  == K_s \o <<"x">>
K_st  == K_s \o <<"t", "/">>
K_stx == K_st \o <<"x">>

W_f   == DavMount
W_x   == DavMount \o <<"/", "x">>
W_s   == DavMount \o <<"/", "s">>
W_sx  == W_s \o <<"/", "x">>
W_st  == W_s \o <<"/", "t">>
W_stx == W_st \o <<"/", "x">>
W_gx  == <<"/", "g", "/", "x">>

\* the size of every object of the modelled bucket: markers are zero-byte, d/f/s/x
\* is a zero-byte file, d/f/x holds 100 bytes
SizeOf(k) == IF EndsWith(k, <<SL>>) THEN 0
             ELSE IF k = K_x THEN 100
             ELSE IF k = K_sx THEN 0
             ELSE 3

DavKeys == { K_f, K_x, K_s, K_sx, K_st, K_stx }

\* any set of objects may be in the bucket when a request arrives
DavStores == { [k \in ks |-> SizeOf(k)] : ks \in SUBSET DavKeys }

NoRange == [start |-> -1, end |-> -1]

NoResp == [method |-> "none", path |-> Empty, status |-> 0, fault |-> "none",
           before |-> "other", changed |-> FALSE, key |-> Empty,
           touched |-> FALSE, cleared |-> FALSE,
           batches |-> << >>, files |-> {}, collections |-> {}, mounts |-> {},
           truncated |-> FALSE,
           depth |-> "", header |-> Empty, sentRange |-> NoRange, contentRange |-> << >>,
           bodyLen |-> -1, strategy |-> "none", mode |-> "", len |-> -1, uploadId |-> 0,
           abortCalled |-> FALSE]

\* how this request follows the previous one: the same method and path again,
\* after a 2xx answer that changed ("sameChanged") or did not change the bucket
Before(method, path) ==
    IF resp.method = method /\ resp.path = path /\ resp.status \in 200..299
    THEN (IF resp.changed THEN "sameChanged" ELSE "same")
    ELSE "other"

IdlePut == [pc |-> "idle", path |-> Empty, key |-> Empty, len |-> -1, mode |-> "",
            strategy |-> "none", partSize |-> 0, nParts |-> 0, partsDone |-> 0,
            uploadId |-> 0, fault |-> "none", failAt |-> 0]

\* a request as it arrives; a field a method does not use keeps its value here.
\* fault names the backend call of this request that fails ("none": no call fails)
NoReq == [method |-> "none", path |-> Empty, header |-> Empty, depth |-> "", impl |-> "",
          hasBody |-> FALSE, fault |-> "none", errKey |-> Empty, failAt |-> 0,
          len |-> -1, mode |-> "", client |-> FALSE, nParts |-> 0]

(***************************************************************************)
(* handleDelete                                                            *)
(***************************************************************************)
\* the do/while loop over ListObjectsV2 pages: every key under the prefix
RECURSIVE ListAll(_, _, _)
ListAll(st, prefix, token) ==
    LET pg == ListPage(st, prefix, token)
    IN  pg.contents \o (IF pg.truncated THEN ListAll(st, prefix, pg.next) ELSE << >>)

\* every key in a single request
BatchesMutant(keys, n) == IF keys = << >> THEN << >> ELSE <<keys>>

\* for (i = 0; i < keysToDelete.length; i += batchSize) keysToDelete.slice(i, i + batchSize)
RECURSIVE Batches(_, _)
Batches(keys, n) ==
    IF keys = << >> THEN << >>
    ELSE <<FirstN(keys, n)>> \o Batches(Substring(keys, n), n)

SeqToSet(q) == { q[i] : i \in 1..Len(q) }

\* the keys of the first n batches
RECURSIVE KeysOfBatches(_, _)
KeysOfBatches(bs, n) ==
    IF n <= 0 \/ bs = << >> THEN {}
    ELSE SeqToSet(bs[1]) \cup KeysOfBatches(Tail(bs), n - 1)

\* keysToDelete: the listed keys, plus the directory marker when it was not listed
\* and a HEAD finds it
KeysToDelete(st, prefix) ==
    LET listed == ListAll(st, prefix, Empty)
    IN  IF prefix \notin SeqToSet(listed) /\ prefix \in KeysOf(st)
        THEN listed \o <<prefix>> ELSE listed

DeleteFaults == { "none", "list", "deleteThrows", "keyError", "head", "cache" }

DeleteResp(path, status, fault) ==
    [NoResp EXCEPT !.method = "DELETE", !.path = path, !.status = status, !.fault = fault,
                   !.before = Before("DELETE", path)]

\* a check that takes no sub-path for the mount root
IsMountRootMutant(subPath) == FALSE

\* handleDelete: subPath === "/"
IsMountRoot(subPath) == subPath = <<SL>>

\* fault: which backend call of this request fails; errKey: the key DeleteObjects
\* reports in Errors; failAt: the batch whose DeleteObjects call throws
Delete(path, fault, errKey, failAt) ==
    LET r     == FindMountPointByPath(DavMounts, path)
        isDir == EndsWith(path, <<SL>>)
        key   == DeletePath(DavFolder, r.mount, r.subPath, isDir)
        toDel == KeysToDelete(store, key)
        bs    == Batches(toDel, DeleteBatchSize)
    IN
    /\ IF ~r.found THEN
            /\ resp' = DeleteResp(path, 404, "none")
            /\ UNCHANGED store
       ELSE IF IsMountRoot(r.subPath) THEN
            /\ resp' = DeleteResp(path, 405, "none")
            /\ UNCHANGED store
       ELSE IF key = Empty THEN
            /\ resp' = [DeleteResp(path, 500, "none") EXCEPT !.key = key]
            /\ UNCHANGED store
       ELSE IF isDir THEN
            IF ~CheckDirectoryExists(store, key) THEN
                /\ resp' = [DeleteResp(path, 404, "none") EXCEPT !.key = key]
                /\ UNCHANGED store
            ELSE IF fault \in {"list", "head"} THEN
                /\ resp' = [DeleteResp(path, 500, fault) EXCEPT !.key = key]
                /\ UNCHANGED store
            ELSE IF fault = "deleteThrows" THEN
                /\ failAt \in 1..Len(bs)
                /\ store' = RemoveKeys(store, KeysOfBatches(bs, failAt - 1))
                /\ resp' = [DeleteResp(path, 500, fault) EXCEPT !.key = key,
                              !.batches = SubSeq(bs, 1, failAt), !.changed = store' # store]
            ELSE
                /\ fault = "keyError" => errKey \in SeqToSet(toDel)
                /\ store' = RemoveKeys(store, SeqToSet(toDel) \ (IF fault = "keyError" THEN {errKey} ELSE {}))
                /\ resp' = [DeleteResp(path, IF fault = "cache" THEN 500 ELSE 204, fault) EXCEPT
                              !.key = key, !.batches = bs, !.changed = store' # store,
                              !.touched = TRUE, !.cleared = fault # "cache"]
       ELSE
            IF key \notin KeysOf(store) THEN
                /\ resp' = [DeleteResp(path, 404, "none") EXCEPT !.key = key]
                /\ UNCHANGED store
            ELSE IF fault \in {"head", "deleteThrows"} THEN
                /\ resp' = [DeleteResp(path, 500, fault) EXCEPT !.key = key]
                /\ UNCHANGED store
            ELSE
                /\ fault \in {"none", "cache"}
                /\ store' = RemoveKeys(store, {key})
                /\ resp' = [DeleteResp(path, IF fault = "cache" THEN 500 ELSE 204, fault) EXCEPT
                              !.key = key, !.changed = TRUE,
                              !.touched = TRUE, !.cleared = fault # "cache"]
    /\ UNCHANGED <<sessions, put, keyVars, resVars, viewVars, upVars, bootVars>>

DeletePaths == { W_f, W_f \o <<SL>>, W_x, W_s \o <<SL>>, W_sx, W_st \o <<SL>>, W_gx }

DeleteRequests ==
    { r \in { [NoReq EXCEPT !.method = "DELETE", !.path = p, !.fault = f, !.errKey = k, !.failAt = n] :
                p \in DeletePaths, f \in DeleteFaults, k \in DavKeys \cup {Empty}, n \in 0..3 } :
        /\ (r.fault = "keyError") = (r.errKey # Empty)
        /\ (r.fault = "deleteThrows") = (r.failAt # 0) }

DeleteRequest ==
    /\ req.method = "DELETE"
    /\ Delete(req.path, req.fault, req.errKey, req.failAt)
    /\ req' = NoReq

(***************************************************************************)
(* handleGet (GET and HEAD)                                                *)
(***************************************************************************)
Digits == <<"0", "1", "2", "3", "4", "5", "6", "7", "8", "9">>

IsDigit(c) == \E i \in 1..Len(Digits) : Digits[i] = c

DigitVal(c) == (CHOOSE i \in 1..Len(Digits) : Digits[i] = c) - 1

\* parseInt(text, 10) of a run of digits
RECURSIVE ParseInt(_)
ParseInt(ds) ==
    IF ds = << >> THEN 0
    ELSE ParseInt(DropLast(ds)) * 10 + DigitVal(ds[Len(ds)])

\* the template literal's rendering of a non-negative integer
RECURSIVE ToDigits(_)
ToDigits(n) ==
    IF n < 10 THEN <<Digits[n + 1]>>
    ELSE ToDigits(n \div 10) \o <<Digits[(n % 10) + 1]>>

\* the longest run of digits of h that starts at position j
RECURSIVE DigitRun(_, _)
DigitRun(h, j) ==
    IF j <= Len(h) /\ IsDigit(h[j]) THEN <<h[j]>> \o DigitRun(h, j + 1) ELSE << >>

BytesEq == <<"b", "y", "t", "e", "s", "=">>

\* /bytes=(\d+)-(\d*)/ matches at position i of h
RangeMatchesAt(h, i) ==
    /\ i + Len(BytesEq) - 1 <= Len(h)
    /\ SubSeq(h, i, i + Len(BytesEq) - 1) = BytesEq
    /\ LET d1 == DigitRun(h, i + Len(BytesEq))
           j  == i + Len(BytesEq) + Len(d1)
       IN  Len(d1) >= 1 /\ j <= Len(h) /\ h[j] = "-"

\* a parser that recognizes no Range header
RangeMatchMutant(h) == [matched |-> FALSE, start |-> -1, end |-> -1]

\* rangeHeader.match(/bytes=(\d+)-(\d*)/): the leftmost match; end = -1 is "undefined"
RangeMatch(h) ==
    IF \E i \in 1..Len(h) : RangeMatchesAt(h, i)
    THEN LET i  == CHOOSE x \in 1..Len(h) :
                       RangeMatchesAt(h, x) /\ \A y \in 1..(x - 1) : ~RangeMatchesAt(h, y)
             d1 == DigitRun(h, i + Len(BytesEq))
             d2 == DigitRun(h, i + Len(BytesEq) + Len(d1) + 1)
         IN  [matched |-> TRUE, start |-> ParseInt(d1),
              end |-> IF d2 = << >> THEN -1 ELSE ParseInt(d2)]
    ELSE [matched |-> FALSE, start |-> -1, end |-> -1]

\* a const declared in the try block is not in scope in its catch block:
\* reading getParams (line 464) or headResponse (line 466) there throws
TryConstReadableInCatch == FALSE

\* GetObject of an object of `size` bytes; range = NoRange when no Range is sent.
\* A first byte beyond the object is InvalidRange, a last byte before the first
\* makes the range ignored, a last byte beyond the object is clipped.
GetObject(size, range) ==
    IF range = NoRange THEN
        [error |-> "none", contentRange |-> << >>, contentLength |-> size]
    ELSE IF range.end # -1 /\ range.end < range.start THEN
        [error |-> "none", contentRange |-> << >>, contentLength |-> size]
    ELSE IF range.start >= size THEN
        [error |-> "InvalidRange", contentRange |-> << >>, contentLength |-> 0]
    ELSE LET last == IF range.end = -1 \/ range.end >= size THEN size - 1 ELSE range.end
         IN  [error |-> "none", contentRange |-> <<range.start, last, size>>,
              contentLength |-> last - range.start + 1]

\* Content-Range: bytes */total, the header of a 416
StarRange(total) == <<-1, -1, total>>

GetFaults == { "none", "head", "get" }

GetResp(isHead, path, status, fault) ==
    [NoResp EXCEPT !.method = IF isHead THEN "HEAD" ELSE "GET", !.path = path,
                   !.status = status, !.fault = fault,
                   !.before = Before(IF isHead THEN "HEAD" ELSE "GET", path)]

\* header = Empty: the request carries no Range header
Get(path, isHead, header, fault) ==
    LET r     == FindMountPointByPath(DavMounts, path)
        key   == GetObjectKey(DavFolder, r.mount, r.subPath)
        m     == RangeMatch(header)
        isRangeRequest == header # Empty /\ m.matched
        sent  == IF isRangeRequest THEN [start |-> m.start, end |-> m.end] ELSE NoRange
        got   == GetObject(store[key], sent)
        seen  == [GetResp(isHead, path, 0, fault) EXCEPT !.key = key, !.touched = TRUE]
    IN
    /\ resp' =
         IF ~r.found THEN GetResp(isHead, path, 404, "none")
         ELSE IF key = Empty THEN GetResp(isHead, path, 500, "none")
         ELSE IF fault = "head" THEN [seen EXCEPT !.status = 500]
         ELSE IF key \notin KeysOf(store) THEN [seen EXCEPT !.status = 404, !.fault = "none"]
         ELSE IF isHead THEN [seen EXCEPT !.status = 200, !.fault = "none", !.len = store[key]]
         ELSE IF fault = "get" THEN
              [seen EXCEPT !.status = 500, !.header = header, !.sentRange = sent]
         ELSE IF got.error = "InvalidRange" THEN
              [seen EXCEPT !.status = IF TryConstReadableInCatch THEN 416 ELSE 500,
                           !.header = header, !.sentRange = sent, !.len = store[key],
                           !.contentRange = IF TryConstReadableInCatch
                                            THEN StarRange(store[key]) ELSE << >>]
         ELSE [seen EXCEPT !.status = IF isRangeRequest /\ got.contentRange # << >>
                                       THEN 206 ELSE 200,
                           !.header = header, !.sentRange = sent,
                           !.contentRange = IF isRangeRequest THEN got.contentRange ELSE << >>,
                           !.bodyLen = got.contentLength, !.len = store[key]]
    /\ UNCHANGED <<store, sessions, put, keyVars, resVars, viewVars, upVars, bootVars>>

FormatRange(start, end) ==
    BytesEq \o ToDigits(start) \o <<"-">> \o (IF end < 0 THEN << >> ELSE ToDigits(end))

\* (start, end) of the well-formed Range headers sent; end = -1: "bytes=start-"
SentRanges == { <<10, 19>>, <<50, -1>>, <<0, 999>>, <<100, -1>>, <<5, 2>>, <<2, 2>> }

BytesSuffix5 == BytesEq \o <<"-", "5">>

ItemsRange == <<"i", "t", "e", "m", "s", "=", "0", "-", "5">>

RangeHeaders ==
    { Empty, BytesSuffix5, ItemsRange, <<"x">> \o FormatRange(1, 2) }
    \cup { FormatRange(pr[1], pr[2]) : pr \in SentRanges }

GetPaths == { W_x, W_sx, W_stx, W_gx, W_f }

GetRequests ==
    { r \in { [NoReq EXCEPT !.method = m, !.path = p, !.header = h, !.fault = f] :
                m \in {"GET", "HEAD"}, p \in GetPaths, h \in RangeHeaders, f \in GetFaults } :
        /\ r.method = "HEAD" => r.header = Empty /\ r.fault # "get" }

GetRequest ==
    /\ req.method \in {"GET", "HEAD"}
    /\ Get(req.path, req.method = "HEAD", req.header, req.fault)
    /\ req' = NoReq

(***************************************************************************)
(* handleMkcol                                                             *)
(***************************************************************************)
\* the status mkcol.js answered for an existing directory before it was changed to 201
MkcolExistsStatusMutant == 405

\* the status answered when the directory already exists
MkcolExistsStatus == 201

\* new Response(text, 500) and new Response(text, 409): the second argument is not
\* an init object, the constructor throws and the handler's outer catch answers
ResponseWithNumberInit == 500

MkcolFaults == { "none", "check", "parent", "put", "cache" }

MkcolResp(path, status, fault) ==
    [NoResp EXCEPT !.method = "MKCOL", !.path = path, !.status = status, !.fault = fault,
                   !.before = Before("MKCOL", path)]

\* a check that lets every body pass
BodyRejectedMutant(hasBody) == FALSE

\* handleMkcol: body.length > 0
BodyRejected(hasBody) == hasBody

\* s3ParentPrefix: the key without its last segment, "" when the key has one segment
MkcolParentPrefix(key) ==
    LET pathParts == Segments(key)
    IN  IF HasSlash(key) /\ Len(pathParts) > 1
        THEN JoinSlash(DropLast(pathParts)) \o <<SL>>
        ELSE Empty

Mkcol(path, hasBody, fault) ==
    LET r      == FindMountPointByPath(DavMounts, path)
        key    == MkcolDirectoryKey(DavFolder, r.mount, r.subPath)
        parent == MkcolParentPrefix(key)
        withParent == IF parent # Empty /\ ~CheckDirectoryExists(store, parent)
                      THEN PutKey(store, parent, 0) ELSE store
        keyed  == [MkcolResp(path, 0, fault) EXCEPT !.key = key]
    IN
    /\ IF ~r.found THEN
            /\ resp' = MkcolResp(path, 404, "none")
            /\ UNCHANGED store
       ELSE IF BodyRejected(hasBody) THEN
            /\ resp' = MkcolResp(path, 415, "none")
            /\ UNCHANGED store
       ELSE IF r.subPath = <<SL>> THEN
            /\ resp' = [keyed EXCEPT !.status = 201, !.fault = "none", !.touched = TRUE]
            /\ UNCHANGED store
       ELSE IF key = Empty \/ ~EndsWith(key, <<SL>>) THEN
            /\ resp' = [keyed EXCEPT !.status = ResponseWithNumberInit, !.fault = "none"]
            /\ UNCHANGED store
       ELSE IF fault = "check" THEN
            /\ resp' = [keyed EXCEPT !.status = 500]
            /\ UNCHANGED store
       ELSE IF CheckDirectoryExists(store, key) THEN
            /\ resp' = [keyed EXCEPT !.status = MkcolExistsStatus, !.fault = "none"]
            /\ UNCHANGED store
       ELSE IF fault = "parent" THEN
            /\ parent # Empty
            /\ resp' = [keyed EXCEPT !.status = ResponseWithNumberInit]
            /\ UNCHANGED store
       ELSE IF fault = "put" THEN
            /\ store' = withParent
            /\ resp' = [keyed EXCEPT !.status = 500, !.changed = store' # store]
       ELSE
            /\ store' = PutKey(withParent, key, 0)
            /\ resp' = [keyed EXCEPT !.status = IF fault = "cache" THEN 500 ELSE 201,
                                     !.changed = TRUE, !.touched = TRUE,
                                     !.cleared = fault # "cache"]
    /\ UNCHANGED <<sessions, put, keyVars, resVars, viewVars, upVars, bootVars>>

MkcolPaths == { W_f, W_s, W_s \o <<SL>>, W_st \o <<SL>>, W_gx }

MkcolRequests ==
    { r \in { [NoReq EXCEPT !.method = "MKCOL", !.path = p, !.hasBody = h, !.fault = f] :
                p \in MkcolPaths, h \in BOOLEAN, f \in MkcolFaults } :
        r.hasBody => r.fault = "none" }

MkcolRequest ==
    /\ req.method = "MKCOL"
    /\ Mkcol(req.path, req.hasBody, req.fault)
    /\ req' = NoReq

\* the client sends the MKCOL it has just been answered once more
MkcolAgain ==
    /\ req = NoReq
    /\ resp.method = "MKCOL"
    /\ req' \in { r \in MkcolRequests : r.path = resp.path /\ ~r.hasBody }
    /\ UNCHANGED <<store, sessions, put, resp, keyVars, resVars, viewVars, upVars, bootVars>>

(***************************************************************************)
(* handlePropfind in the engine: listing a directory                       *)
(***************************************************************************)
\* name relative to the queried prefix
RelativeName(prefix, key) ==
    IF prefix # Empty /\ StartsWith(key, prefix) THEN Substring(key, Len(prefix)) ELSE key

\* folderDisplayName.replace(/\/$/, "")
StripOneTrailingSlash(s) == IF EndsWith(s, <<SL>>) THEN DropLast(s) ELSE s

\* a Contents loop that skips nothing
RendersAsFileMutant(impl, prefix, key, size) == TRUE

\* the Contents loop of buildPropfindResponse: is this object rendered as a file
RendersAsFile(impl, prefix, key, size) ==
    /\ ~(key = prefix /\ EndsWith(key, <<SL>>))
    /\ ~(EndsWith(key, <<SL>>) /\ size = 0 /\ key # prefix)
    /\ IF impl = "propfind" THEN RelativeName(prefix, key) # Empty
       ELSE ~(RelativeName(prefix, key) = Empty /\ key = prefix)

\* buildPropfindResponse: the children rendered from one ListObjectsV2 answer
\* (one request with Delimiter "/", no continuation)
BuildPropfindResponse(impl, st, prefix, depth) ==
    LET listResponse == ListDelimited(st, prefix)
    IN  IF depth = "0"
        THEN [files |-> {}, collections |-> {}, truncated |-> listResponse.truncated]
        ELSE [files |-> { [name |-> RelativeName(prefix, k), size |-> st[k], key |-> k] :
                            k \in { x \in listResponse.contents : RendersAsFile(impl, prefix, x, st[x]) } },
              collections |-> { StripOneTrailingSlash(RelativeName(prefix, cp)) :
                                  cp \in listResponse.commonPrefixes },
              truncated |-> listResponse.truncated]

Depths == { "", "0", "1", "infinity", "2" }

PropfindFaults == { "none", "list", "touch" }

PropfindResp(path, status, fault) ==
    [NoResp EXCEPT !.method = "PROPFIND", !.path = path, !.status = status, !.fault = fault,
                   !.before = Before("PROPFIND", path)]

\* impl: "propfind" is methods/propfind.js, "draft" the other handlePropfind
Propfind(impl, path, depthHeader, fault) ==
    LET depth == IF depthHeader = "" THEN "infinity" ELSE depthHeader
        r     == IF impl = "propfind" THEN PropfindResolve(DavMounts, path)
                 ELSE DraftResolve(DavMounts, path)
        virt  == RespondWithMounts(DavMounts, path)
        prefix == PropfindQueryPrefix(DavFolder, r.mount, r.subPath)
        built == BuildPropfindResponse(impl, store, prefix, depth)
        base  == [PropfindResp(path, 207, fault) EXCEPT !.mode = impl, !.depth = depth]
    IN
    /\ resp' =
         IF depth \notin {"0", "1", "infinity"} THEN
              [base EXCEPT !.status = 400, !.fault = "none"]
         ELSE IF ~r.found THEN
              [base EXCEPT !.fault = "none", !.collections = virt.directories,
                           !.mounts = virt.mounts]
         ELSE IF fault = "list" THEN
              [base EXCEPT !.status = 500, !.key = prefix, !.touched = TRUE]
         ELSE [base EXCEPT !.key = prefix, !.touched = fault # "touch",
                           !.files = built.files, !.collections = built.collections,
                           !.truncated = built.truncated]
    /\ UNCHANGED <<store, sessions, put, keyVars, resVars, viewVars, upVars, bootVars>>

PropfindPaths == { <<SL>>, W_f, W_f \o <<SL>>, W_s, W_st \o <<SL>>, W_gx }

PropfindRequests ==
    { [NoReq EXCEPT !.method = "PROPFIND", !.impl = i, !.path = p, !.depth = d, !.fault = f] :
        i \in {"propfind", "draft"}, p \in PropfindPaths, d \in Depths, f \in PropfindFaults }

PropfindRequest ==
    /\ req.method = "PROPFIND"
    /\ Propfind(req.impl, req.path, req.depth, req.fault)
    /\ req' = NoReq

(***************************************************************************)
(* handlePut                                                               *)
(***************************************************************************)
MiB == 1024 * 1024

MULTIPART_THRESHOLD == 5 * MiB

WINDOWS_CLIENT_MULTIPART_THRESHOLD == 1 * MiB

DIRECT_THRESHOLD == 10 * MiB

PROXY_THRESHOLD == 50 * MiB

\* a proxy test that ignores the forced proxy mode
ShouldUseProxyMutant(mode, len) == mode = "auto" /\ len > PROXY_THRESHOLD

\* declaredContentLength = contentLengthHeader ? parseInt(contentLengthHeader, 10) : -1
ShouldUseProxy(mode, len) == mode = "proxy" \/ (mode = "auto" /\ len > PROXY_THRESHOLD)

\* the direct threshold taken as exclusive
ShouldUseDirectMutant(mode, len) ==
    mode = "direct" \/ (mode = "auto" /\ len > 0 /\ len < DIRECT_THRESHOLD)

ShouldUseDirect(mode, len) ==
    mode = "direct" \/ (mode = "auto" /\ len > 0 /\ len <= DIRECT_THRESHOLD)

IsZeroByteFile(len) == len = 0

\* the branch of the upload logic taken
UploadStrategy(mode, len) ==
    IF IsZeroByteFile(len) THEN "zero"
    ELSE IF ShouldUseProxy(mode, len) THEN "proxy"
    ELSE IF ShouldUseDirect(mode, len) THEN "direct"
    ELSE "multipart"

EffectiveThreshold(isPotentiallyProblematicClient) ==
    IF isPotentiallyProblematicClient THEN WINDOWS_CLIENT_MULTIPART_THRESHOLD
    ELSE MULTIPART_THRESHOLD

\* s3ParentPrefix = key.substring(0, key.lastIndexOf('/') + 1), "" without a slash
PutParentPrefix(key) == IF HasSlash(key) THEN SubSeq(key, 1, LastSlash(key)) ELSE Empty

\* step 6 of handlePut: the parent marker is created when nothing exists under the
\* parent prefix; a failure of the check or of the put is logged and ignored
WithParentMarker(st, key, fault) ==
    LET parent == PutParentPrefix(key)
    IN  IF parent # Empty /\ fault # "parent" /\ ~CheckDirectoryExists(st, parent)
        THEN PutKey(st, parent, 0) ELSE st

\* the multipart catch block reads s3KeyForMultipart, a const of the try block,
\* which is not in scope there: the read throws before abortMultipartUpload is called
KeyForAbortReadable == FALSE

MaxParts == 2

ContentLengths ==
    { -1, 0, 1, DIRECT_THRESHOLD, DIRECT_THRESHOLD + 1, PROXY_THRESHOLD, PROXY_THRESHOLD + 1 }

UploadModes == { "auto", "direct", "proxy", "multipart" }

PutFaults == { "none", "parent", "put", "proxyStatus", "init", "part", "complete", "cache" }

PutPaths == { W_x, W_sx, W_s \o <<SL>>, W_gx, W_gx \o <<SL>> }

\* a check that takes no path for a collection path
IsCollectionPathMutant(path) == FALSE

\* handlePut: path.endsWith("/")
IsCollectionPath(path) == EndsWith(path, <<SL>>)

PutResp(p, status) ==
    [NoResp EXCEPT !.method = "PUT", !.path = p.path, !.status = status, !.fault = p.fault,
                   !.key = p.key, !.strategy = p.strategy, !.mode = p.mode, !.len = p.len,
                   !.uploadId = p.uploadId]

\* handlePut up to the choice of the upload branch; the zero-byte, proxy and direct
\* branches answer at once, the multipart branch continues in the steps below
PutStart(path, len, mode, client, nParts, fault, failAt) ==
    LET r     == FindMountPointByPath(DavMounts, path)
        key   == PutObjectKey(DavFolder, r.mount, r.subPath)
        strat == UploadStrategy(mode, len)
        p     == [IdlePut EXCEPT !.path = path, !.key = key, !.len = len, !.mode = mode,
                                 !.strategy = strat, !.fault = fault]
        st1   == WithParentMarker(store, key, fault)
    IN
    /\ put.pc = "idle"
    /\ IF ~r.found THEN
            /\ resp' = [PutResp(p, 404) EXCEPT !.strategy = "none", !.key = Empty, !.fault = "none"]
            /\ UNCHANGED <<store, put>>
       ELSE IF IsCollectionPath(path) THEN
            /\ resp' = [PutResp(p, 405) EXCEPT !.strategy = "none", !.key = Empty, !.fault = "none"]
            /\ UNCHANGED <<store, put>>
       ELSE IF ~PutKeyValid(key) THEN
            /\ resp' = [PutResp(p, ResponseWithNumberInit) EXCEPT !.strategy = "none", !.fault = "none"]
            /\ UNCHANGED <<store, put>>
       ELSE IF strat = "multipart" THEN
            /\ store' = st1
            /\ put' = [p EXCEPT !.pc = "init", !.nParts = nParts, !.failAt = failAt,
                                !.partSize = EffectiveThreshold(client)]
            /\ UNCHANGED resp
       ELSE
            /\ IF fault = "put" THEN
                    /\ store' = st1
                    /\ resp' = [PutResp(p, IF strat = "proxy" /\ mode = "proxy" THEN 502 ELSE 500)
                                  EXCEPT !.changed = store' # store]
               ELSE IF fault = "proxyStatus" THEN
                    /\ store' = st1
                    /\ resp' = [PutResp(p, 403) EXCEPT !.changed = store' # store]
               ELSE
                    /\ store' = PutKey(st1, key, IF len > 0 THEN len ELSE 0)
                    /\ resp' = [PutResp(p, 201) EXCEPT !.changed = TRUE, !.touched = TRUE,
                                                       !.cleared = fault # "cache"]
            /\ UNCHANGED put
    /\ UNCHANGED <<sessions, keyVars, resVars, viewVars, upVars, bootVars>>

\* initializeMultipartUpload: the backend opens a session and names its upload-id
PutInitialize ==
    /\ put.pc = "init"
    /\ IF put.fault = "init" THEN
            /\ put' = [put EXCEPT !.pc = "catch"]
            /\ UNCHANGED sessions
       ELSE /\ sessions' = Append(sessions, "open")
            /\ put' = [put EXCEPT !.pc = "parts", !.uploadId = Len(sessions) + 1]
    /\ UNCHANGED <<store, resp, req, keyVars, resVars, viewVars, upVars, bootVars>>

\* processStreamInChunks: the next chunk of the body goes through uploadPartWithRetry,
\* which throws once its retries are used up
PutUploadPart ==
    /\ put.pc = "parts"
    /\ put.partsDone < put.nParts
    /\ IF put.fault = "part" /\ put.failAt = put.partsDone + 1
       THEN put' = [put EXCEPT !.pc = "catch"]
       ELSE put' = [put EXCEPT !.partsDone = @ + 1]
    /\ UNCHANGED <<store, sessions, resp, req, keyVars, resVars, viewVars, upVars, bootVars>>

\* completeMultipartUpload: the session ends and the object appears
PutComplete ==
    /\ put.pc = "parts"
    /\ put.partsDone = put.nParts
    /\ IF put.fault = "complete" THEN
            /\ put' = [put EXCEPT !.pc = "catch"]
            /\ UNCHANGED <<store, sessions>>
       ELSE /\ sessions' = [sessions EXCEPT ![put.uploadId] = "completed"]
            /\ store' = PutKey(store, put.key, put.nParts * put.partSize)
            /\ put' = [put EXCEPT !.pc = "finish"]
    /\ UNCHANGED <<resp, req, keyVars, resVars, viewVars, upVars, bootVars>>

\* an abort failure that takes the place of the upload's error
MultipartFailureStatusMutant(abortFailed) == IF abortFailed THEN 502 ELSE 500

\* catch (abortError) only logs; throw multipartError reaches the outer catch: 500
MultipartFailureStatus(abortFailed) == 500

\* catch (multipartError): abort the session if one was opened, then rethrow; the
\* outer catch answers 500
PutCatch ==
    LET aborts == put.uploadId # 0 /\ KeyForAbortReadable
    IN
    /\ put.pc = "catch"
    /\ sessions' = IF aborts THEN [sessions EXCEPT ![put.uploadId] = "aborted"] ELSE sessions
    /\ resp' = [PutResp(put, MultipartFailureStatus(put.uploadId # 0 /\ ~aborts))
                  EXCEPT !.abortCalled = aborts]
    /\ put' = IdlePut
    /\ UNCHANGED <<store, req, keyVars, resVars, viewVars, upVars, bootVars>>

\* step 8: updateMountLastUsed, finalizePutOperation (a cache failure is logged), 201
PutFinish ==
    /\ put.pc = "finish"
    /\ resp' = [PutResp(put, 201) EXCEPT !.changed = TRUE, !.touched = TRUE,
                                         !.cleared = put.fault # "cache"]
    /\ put' = IdlePut
    /\ UNCHANGED <<store, sessions, req, keyVars, resVars, viewVars, upVars, bootVars>>

PutRequests ==
    { r \in { [NoReq EXCEPT !.method = "PUT", !.path = p, !.len = l, !.mode = m, !.client = c,
                            !.nParts = n, !.fault = f, !.failAt = a] :
                p \in PutPaths, l \in ContentLengths, m \in UploadModes, c \in BOOLEAN,
                n \in 0..MaxParts, f \in PutFaults, a \in 0..MaxParts } :
        /\ (r.fault = "part") = (r.failAt # 0)
        /\ r.failAt <= r.nParts
        /\ (UploadStrategy(r.mode, r.len) = "multipart") = (r.nParts # 0)
        /\ r.nParts = 0 => ~r.client
        /\ r.fault \in {"init", "part", "complete"} => r.nParts # 0
        /\ r.fault = "proxyStatus" => UploadStrategy(r.mode, r.len) = "proxy"
        /\ r.fault = "put" => r.nParts = 0 }

PutRequest ==
    /\ req.method = "PUT"
    /\ PutStart(req.path, req.len, req.mode, req.client, req.nParts, req.fault, req.failAt)
    /\ req' = NoReq

(***************************************************************************)
(* Shared-file downloads: handleFileDownload and the view limit            *)
(***************************************************************************)
\* how many download requests for the slug are in flight or finished
NumDownloads == 3

\* the largest max_views of the shared file
MaxViewLimit == 2

Downloads == 1..NumDownloads

\* a request that has not read the row yet
Waiting == [pc |-> "start", late |-> FALSE, past |-> FALSE, status |-> 0]

Answered(d, status) == [d EXCEPT !.pc = "done", !.status = status]

\* max_views && max_views > 0 && views > max_views
OverLimit(views, max_views) == max_views > 0 /\ views > max_views

ViewInit ==
    /\ file \in [exists : {TRUE}, views : {0}, max_views : 0..MaxViewLimit, password : BOOLEAN]
    /\ dl = [p \in Downloads |-> Waiting]

ViewParked ==
    /\ file = [exists |-> FALSE, views |-> 0, max_views |-> 0, password |-> FALSE]
    /\ dl = << >>

\* handleFileDownload up to the access check: getFileBySlug, the password parameter,
\* isFileAccessible on the row as it was read
GetFileBySlug(p) ==
    /\ dl[p].pc = "start"
    /\ \E param \in {"absent", "wrong", "right"}, s3Config \in BOOLEAN :
         dl' = [dl EXCEPT ![p] =
                  IF ~file.exists THEN [Answered(@, 404) EXCEPT !.late = TRUE]
                  ELSE IF file.password /\ param = "absent" THEN Answered(@, 401)
                  ELSE IF file.password /\ param = "wrong" THEN Answered(@, 403)
                  ELSE IF OverLimit(file.views, file.max_views)
                       THEN [@ EXCEPT !.pc = "delete", !.status = 403]
                  ELSE IF ~s3Config THEN Answered(@, 500)
                  ELSE [@ EXCEPT !.pc = "increment"]]
    /\ UNCHANGED <<file, keyVars, resVars, davVars, upVars, bootVars>>

\* checkAndDeleteExpiredFile: DELETE FROM files WHERE id = ?, then the caller answers
CheckAndDeleteExpiredFile(p) ==
    /\ dl[p].pc = "delete"
    /\ file' = [file EXCEPT !.exists = FALSE]
    /\ dl' = [dl EXCEPT ![p] = Answered(@, @.status)]
    /\ UNCHANGED <<keyVars, resVars, davVars, upVars, bootVars>>

\* incrementAndCheckFileViews: UPDATE files SET views = views + 1 WHERE id = ?
IncrementViews(p) ==
    /\ dl[p].pc = "increment"
    /\ file' = IF file.exists THEN [file EXCEPT !.views = @ + 1] ELSE file
    /\ dl' = [dl EXCEPT ![p] = [@ EXCEPT !.pc = "reread",
                                         !.past = file.exists /\ file.max_views > 0
                                                  /\ file.views = file.max_views]]
    /\ UNCHANGED <<keyVars, resVars, davVars, upVars, bootVars>>

\* incrementAndCheckFileViews: the row is read again; a row that is gone makes
\* updatedFile null, reading updatedFile.max_views throws and the outer catch answers 500
RereadFile(p) ==
    /\ dl[p].pc = "reread"
    /\ dl' = [dl EXCEPT ![p] =
                IF ~file.exists THEN Answered(@, 500)
                ELSE IF OverLimit(file.views, file.max_views)
                     THEN [@ EXCEPT !.pc = "delete", !.status = 410]
                ELSE [@ EXCEPT !.pc = "serve"]]
    /\ UNCHANGED <<file, keyVars, resVars, davVars, upVars, bootVars>>

\* the file's content from a WebDAV store (200) or the redirect to the presigned
\* URL (302); 500 when the download or the URL generation fails
ServeFile(p) ==
    /\ dl[p].pc = "serve"
    /\ \E ok \in BOOLEAN, provider \in {"webdav", "s3"} :
         dl' = [dl EXCEPT ![p] =
                  Answered(@, IF ~ok THEN 500 ELSE IF provider = "webdav" THEN 200 ELSE 302)]
    /\ UNCHANGED <<file, keyVars, resVars, davVars, upVars, bootVars>>

ViewNext ==
    \E p \in Downloads :
        \/ GetFileBySlug(p)
        \/ CheckAndDeleteExpiredFile(p)
        \/ IncrementViews(p)
        \/ RereadFile(p)
        \/ ServeFile(p)

(***************************************************************************)
(* Presigned uploads: the presign and commit routes and the capacity limit *)
(***************************************************************************)
\* how many uploads (file ids) are requested
NumUploads == 2

\* the largest body.size; 0 stands for a request without a size
MaxFileSize == 2

\* total_storage_bytes of the storage configuration when a limit is set
StorageLimit == 3

\* total_storage_bytes === null
NoLimit == -1

Uploads == 1..NumUploads

FileSizes == 0..MaxFileSize

NoRow == [state |-> "none", size |-> 0]

NewUpload == [pc |-> "presign", size |-> 0, valid |-> TRUE, status |-> 0]

RECURSIVE SumSizes(_, _)
SumSizes(table, ids) ==
    IF ids = {} THEN 0
    ELSE LET f == CHOOSE x \in ids : TRUE
         IN  (IF table[f].state \in {"provisional", "committed"} THEN table[f].size ELSE 0)
             + SumSizes(table, ids \ {f})

\* SELECT SUM(size) FROM files WHERE s3_config_id = ?
TotalUsed(table) == SumSizes(table, Uploads)

\* SELECT SUM(size) FROM files WHERE s3_config_id = ? AND id != ?
TotalUsedExcept(table, f) == SumSizes(table, Uploads \ {f})

ExceedsLimitMutant(limit, currentUsage, fileSize) == FALSE

\* total_storage_bytes !== null and currentUsage + fileSize > total_storage_bytes
ExceedsLimit(limit, currentUsage, fileSize) ==
    limit # NoLimit /\ currentUsage + fileSize > limit

UpInit ==
    /\ quota \in [total_storage_bytes : {NoLimit, StorageLimit}]
    /\ filesTable = [f \in Uploads |-> NoRow]
    /\ up = [f \in Uploads |-> NewUpload]

UpParked ==
    /\ quota = [total_storage_bytes |-> NoLimit]
    /\ filesTable = << >>
    /\ up = << >>

\* the presign route up to the generated URL: authorization, the capacity check
\* (made only when the request carries a size), the presigned URL
PresignCheck(f) ==
    /\ up[f].pc = "presign"
    /\ \E authorized \in BOOLEAN, size \in FileSizes, presigned \in BOOLEAN :
         up' = [up EXCEPT ![f] =
                  IF ~authorized THEN [@ EXCEPT !.pc = "refused", !.status = 403]
                  ELSE IF size > 0 /\ ExceedsLimit(quota.total_storage_bytes,
                                                   TotalUsed(filesTable), size)
                       THEN [@ EXCEPT !.pc = "refused", !.status = 400]
                  ELSE IF ~presigned THEN [@ EXCEPT !.pc = "refused", !.status = 500]
                  ELSE [@ EXCEPT !.pc = "insert", !.size = size]]
    /\ UNCHANGED <<quota, filesTable, keyVars, resVars, davVars, viewVars, bootVars>>

\* the presign route's INSERT of the provisional row, size: body.size || 0
PresignInsert(f) ==
    /\ up[f].pc = "insert"
    /\ filesTable' = [filesTable EXCEPT ![f] = [state |-> "provisional", size |-> up[f].size]]
    /\ up' = [up EXCEPT ![f] = [@ EXCEPT !.pc = "commit", !.status = 200]]
    /\ UNCHANGED <<quota, keyVars, resVars, davVars, viewVars, bootVars>>

\* the commit route; a client may send it again
Commit(f) ==
    /\ up[f].pc = "commit"
    /\ \E authorized \in BOOLEAN, etag \in BOOLEAN, size \in FileSizes :
         LET row == filesTable[f]
             present == row.state \in {"provisional", "committed"}
             over == ExceedsLimit(quota.total_storage_bytes,
                                  TotalUsedExcept(filesTable, f), size)
             status == IF ~authorized THEN 403
                       ELSE IF ~etag THEN 400
                       ELSE IF ~present THEN 404
                       ELSE IF over THEN 400
                       ELSE 200
         IN  /\ up' = [up EXCEPT ![f] = [@ EXCEPT !.size = size, !.status = status,
                                                  !.valid = authorized /\ etag]]
             /\ filesTable' =
                  IF ~(authorized /\ etag /\ present) THEN filesTable
                  ELSE IF over THEN [filesTable EXCEPT ![f] = [state |-> "deleted", size |-> 0]]
                  ELSE [filesTable EXCEPT ![f] =
                          [state |-> "committed", size |-> IF size > 0 THEN size ELSE row.size]]
    /\ UNCHANGED <<quota, keyVars, resVars, davVars, viewVars, bootVars>>

UpNext ==
    \E f \in Uploads :
        \/ PresignCheck(f)
        \/ PresignInsert(f)
        \/ Commit(f)

(***************************************************************************)
(* The worker's fetch: the database initialization guard                   *)
(***************************************************************************)
\* how many requests enter fetch
NumRequests == 3

\* how many initialization runs may be started
MaxRuns == 2

Requests == 1..NumRequests

\* initializationPromise = null
NoPromise == 0

NewRequest == [pc |-> "new", promise |-> NoPromise, forwarded |-> FALSE, status |-> 0]

\* let isDbInitialized = false; let isInitializing = false; let initializationPromise = null
FreshGuard(secret) ==
    [ENCRYPTION_SECRET |-> secret, isDbInitialized |-> FALSE, isInitializing |-> FALSE,
     initializationPromise |-> NoPromise, runs |-> << >>]

BootInit ==
    /\ guard \in { FreshGuard(secret) : secret \in BOOLEAN }
    /\ conn = [r \in Requests |-> NewRequest]

BootParked ==
    /\ guard = FreshGuard(FALSE)
    /\ conn = << >>

StartsRunMutant(g) == ~g.isDbInitialized

\* if (!isDbInitialized) { if (!isInitializing) { ... } }
StartsRun(g) == ~g.isDbInitialized /\ ~g.isInitializing

\* isInitializing = true; initializationPromise = checkAndInitDatabase(...).then(...).catch(...)
WithNewRun(g) ==
    [g EXCEPT !.isInitializing = TRUE,
              !.initializationPromise = Len(g.runs) + 1,
              !.runs = Append(@, "pending")]

AfterFailureMutant(g) == [g EXCEPT !.initializationPromise = NoPromise]

\* the catch callback: isInitializing = false; initializationPromise = null; throw error
AfterFailure(g) == [g EXCEPT !.isInitializing = FALSE, !.initializationPromise = NoPromise]

\* the then callback: isDbInitialized = true; isInitializing = false
AfterSuccess(g) == [g EXCEPT !.isDbInitialized = TRUE, !.isInitializing = FALSE]

AwaitThrowsMutant(runState) == FALSE

\* await initializationPromise throws when the catch callback has rethrown
AwaitThrows(runState) == runState = "rejected"

\* return app.fetch(request, bindings, ctx)
Forwarded(c) == [c EXCEPT !.pc = "done", !.forwarded = TRUE, !.status = 200]

\* the outer catch: the 500 answer
InternalError(c) == [c EXCEPT !.pc = "done", !.status = 500]

\* fetch from its entry to its first await, or to its answer when it awaits nothing
Fetch(r) ==
    /\ conn[r].pc = "new"
    /\ (guard.ENCRYPTION_SECRET /\ StartsRun(guard)) => Len(guard.runs) < MaxRuns
    /\ LET g == IF guard.ENCRYPTION_SECRET /\ StartsRun(guard) THEN WithNewRun(guard) ELSE guard
       IN  /\ guard' = g
           /\ conn' = [conn EXCEPT ![r] =
                         IF ~guard.ENCRYPTION_SECRET THEN InternalError(@)
                         ELSE IF ~guard.isDbInitialized /\ g.initializationPromise # NoPromise
                              THEN [@ EXCEPT !.pc = "awaiting",
                                             !.promise = g.initializationPromise]
                         ELSE Forwarded(@)]
    /\ UNCHANGED <<keyVars, resVars, davVars, viewVars, upVars>>

\* checkAndInitDatabase settles and the then or the catch callback runs
Settle(k) ==
    /\ k \in 1..Len(guard.runs)
    /\ guard.runs[k] = "pending"
    /\ \E ok \in BOOLEAN :
         guard' = IF ok THEN [AfterSuccess(guard) EXCEPT !.runs[k] = "fulfilled"]
                  ELSE [AfterFailure(guard) EXCEPT !.runs[k] = "rejected"]
    /\ UNCHANGED <<conn, keyVars, resVars, davVars, viewVars, upVars>>

\* fetch after await initializationPromise
Resume(r) ==
    /\ conn[r].pc = "awaiting"
    /\ guard.runs[conn[r].promise] # "pending"
    /\ conn' = [conn EXCEPT ![r] =
                  IF AwaitThrows(guard.runs[conn[r].promise]) THEN InternalError(@)
                  ELSE Forwarded(@)]
    /\ UNCHANGED <<guard, keyVars, resVars, davVars, viewVars, upVars>>

BootNext ==
    \/ \E r \in Requests : Fetch(r)
    \/ \E k \in 1..MaxRuns : Settle(k)
    \/ \E r \in Requests : Resume(r)

(***************************************************************************)
(* Specifications                                                          *)
(***************************************************************************)
EmptyStore == [k \in {} |-> 0]

DavParked ==
    store = EmptyStore /\ sessions = << >> /\ req = NoReq /\ put = IdlePut /\ resp = NoResp

KeysInit == KeyInit /\ ResParked /\ DavParked /\ ViewParked /\ UpParked /\ BootParked

\* key composition of the five handlers over slash variants of the configuration
SpecKeys == KeysInit /\ [][KeyNext]_vars

ResolveInit == ResInit /\ KeyParked /\ DavParked /\ ViewParked /\ UpParked /\ BootParked

\* mount resolution of the two handlePropfind implementations
SpecResolve == ResolveInit /\ [][ResNext]_vars

DavRequests == GetRequests \cup DeleteRequests \cup MkcolRequests \cup PropfindRequests

DavInit ==
    /\ store \in DavStores
    /\ req \in DavRequests
    /\ sessions = << >> /\ put = IdlePut /\ resp = NoResp
    /\ KeyParked /\ ResParked /\ ViewParked /\ UpParked /\ BootParked

DavNext ==
    \/ GetRequest
    \/ DeleteRequest
    \/ MkcolRequest
    \/ MkcolAgain
    \/ PropfindRequest

\* one GET, HEAD, DELETE, MKCOL or PROPFIND request against a bucket in any state,
\* a MKCOL possibly repeated
SpecDav == DavInit /\ [][DavNext]_vars

PutStores == { EmptyStore, [k \in {K_f} |-> 0], [k \in {K_f, K_x} |-> SizeOf(k)] }

PutInit ==
    /\ store \in PutStores
    /\ req \in PutRequests
    /\ sessions = << >> /\ put = IdlePut /\ resp = NoResp
    /\ KeyParked /\ ResParked /\ ViewParked /\ UpParked /\ BootParked

PutNext ==
    \/ PutRequest
    \/ PutInitialize
    \/ PutUploadPart
    \/ PutComplete
    \/ PutCatch
    \/ PutFinish

\* one PUT request, the multipart branch step by step
SpecPut == PutInit /\ [][PutNext]_vars

ViewsInit == ViewInit /\ KeyParked /\ ResParked /\ DavParked /\ UpParked /\ BootParked

\* concurrent download requests for one shared file
SpecViews == ViewsInit /\ [][ViewNext]_vars

UploadsInit == UpInit /\ KeyParked /\ ResParked /\ DavParked /\ ViewParked /\ BootParked

\* presign and commit requests of several uploads to one storage configuration
SpecUploads == UploadsInit /\ [][UpNext]_vars

FetchInit == BootInit /\ KeyParked /\ ResParked /\ DavParked /\ ViewParked /\ UpParked

\* concurrent requests entering the worker before and after initialization
SpecFetch == FetchInit /\ [][BootNext]_vars

(***************************************************************************)
(* Properties of key composition (SpecKeys)                                *)
(***************************************************************************)
IsFileKeyOp == kout.op \in {"put", "get", "deleteFile"}

\* C4: for root folder data/, mount path /files and sub-path /x/y.txt the file key
\* composed by PUT, GET/HEAD and file DELETE is exactly data/files/x/y.txt, however
\* the root folder and the mount path are written with leading, trailing or repeated
\* slashes
C4_FileKeyNormalized ==
    (/\ IsFileKeyOp
     /\ kin.df \in SlashVariants(S_data)
     /\ kin.mp \in SlashVariants(S_files)
     /\ kin.sub = S_xy)
    => kout.key = S_key /\ kout.sent

C4_Witness ==
    /\ kout.op = "get"
    /\ kin.df = <<SL>> \o S_data \o <<SL>>
    /\ kin.mp = <<SL, SL>> \o S_files \o <<SL>>
    /\ kin.sub = S_xy
    /\ kout.key = S_key

\* C5: whatever a handler sends to the backend as key or listing prefix is the empty
\* string or starts with a character other than '/'
C5_NoLeadingSlash ==
    kout.sent => (kout.key = Empty \/ kout.key[1] # SL)

(***************************************************************************)
(* Properties of mount resolution (SpecResolve)                            *)
(***************************************************************************)
\* the mounts of the request that match its path as C3 defines matching
C3_Matching ==
    { m \in SeqToSet(rin.mounts) :
        \/ EnsureTrailingSlash(rin.path) = EnsureTrailingSlash(m)
        \/ StartsWith(rin.path, m \o <<SL>>) }

\* C3: when some visible mount matches the request path, resolution finds a matching
\* mount of the greatest mount-path length; the sub-path starts with '/', is exactly
\* '/' when the path equals the mount path, and continues the mount path to the
\* request path (with the trailing slash of a collection request)
C3_LongestMatchWins ==
    (rout.impl # "none" /\ C3_Matching # {})
    => /\ rout.found
       /\ rout.mount \in C3_Matching
       /\ \A m \in C3_Matching : Len(m) <= Len(rout.mount)
       /\ StartsWith(rout.subPath, <<SL>>)
       /\ EnsureTrailingSlash(rin.path) = EnsureTrailingSlash(rout.mount) => rout.subPath = <<SL>>
       /\ CollapseSlashes(rout.mount \o rout.subPath) = CollectionPath(rin.path)

(***************************************************************************)
(* Properties of the request handlers (SpecDav)                            *)
(***************************************************************************)
\* C2: after a directory DELETE has answered 204, the bucket holds no object whose
\* key starts with the directory's prefix, the marker included
C2_DirectoryDeleteRemovesAll ==
    (/\ resp.method = "DELETE"
     /\ EndsWith(resp.path, <<SL>>)
     /\ resp.status = 204)
    => KeysWithPrefix(store, resp.key) = {}

\* the directory markers directly below a prefix: prefix + name + "/"
MarkersBelow(st, prefix) ==
    { k \in KeysWithPrefix(st, prefix) :
        /\ k # prefix
        /\ EndsWith(k, <<SL>>)
        /\ ~HasSlash(DropLast(Substring(k, Len(prefix)))) }

IsListing == resp.method = "PROPFIND" /\ resp.status = 207 /\ resp.key # Empty

NoMarkerAsFile ==
    \A f \in resp.files : ~(EndsWith(f.key, <<SL>>) /\ f.size = 0)

MarkersAreCollections ==
    \A k \in MarkersBelow(store, resp.key) :
        DropLast(Substring(k, Len(resp.key))) \in resp.collections

C7_MkcolIdempotent ==
    resp.method = "MKCOL" =>
        /\ resp.status # 405
        /\ (resp.before \in {"same", "sameChanged"} /\ resp.fault = "none")
             => resp.status = 201 /\ ~resp.changed

C7_Witness ==
    /\ resp.method = "MKCOL"
    /\ resp.path = W_s \o <<SL>>
    /\ resp.before = "sameChanged"
    /\ resp.status = 201
    /\ K_s \in KeysOf(store)

IsAnsweredGet == resp.method = "GET" /\ resp.fault = "none" /\ resp.status \in {200, 206}

\* C9: a GET whose Range header is bytes=start-end or bytes=start- asks the backend
\* for exactly that range and, when the backend answers with a Content-Range, responds
\* 206 with that Content-Range and the partial body; bytes=10-19 on 100 bytes gives
\* 206, bytes 10-19/100 and 10 bytes; a GET without Range responds 200 with the full body
C9_RangeForwarded ==
    IsAnsweredGet =>
        /\ \A pr \in SentRanges :
              resp.header = FormatRange(pr[1], pr[2]) =>
                 /\ resp.sentRange = [start |-> pr[1], end |-> pr[2]]
                 /\ LET got == GetObject(resp.len, resp.sentRange) IN
                    got.contentRange # << >> =>
                       /\ resp.status = 206
                       /\ resp.contentRange = got.contentRange
                       /\ resp.bodyLen = got.contentRange[2] - got.contentRange[1] + 1
        /\ (resp.header = FormatRange(10, 19) /\ resp.len = 100) =>
              resp.status = 206 /\ resp.contentRange = <<10, 19, 100>> /\ resp.bodyLen = 10
        /\ resp.header = Empty =>
              resp.status = 200 /\ resp.sentRange = NoRange /\ resp.bodyLen = resp.len

C9_Witness ==
    /\ IsAnsweredGet
    /\ resp.header = FormatRange(10, 19)
    /\ resp.len = 100
    /\ resp.status = 206
    /\ resp.contentRange = <<10, 19, 100>>

\* C10: a GET whose Range header cannot be parsed as bytes=start-end (bytes=-5,
\* items=0-5) is answered 416, never 200 with the full body
C10_UnparseableRangeIs416 ==
    (/\ resp.method = "GET"
     /\ resp.fault = "none"
     /\ resp.len >= 0
     /\ resp.header \in {BytesSuffix5, ItemsRange})
    => resp.status = 416

(***************************************************************************)
(* Properties of PUT (SpecPut)                                             *)
(***************************************************************************)
\* C1: a multipart PUT that has obtained an upload-id and then fails in a part upload
\* or in the completion has called abort for that upload-id when it answers, answers
\* 500, and leaves no session open
C1_FailedMultipartIsAborted ==
    (/\ resp.method = "PUT"
     /\ put.pc = "idle"
     /\ resp.uploadId # 0
     /\ resp.fault \in {"part", "complete"})
    => /\ resp.abortCalled
       /\ resp.status = 500
       /\ \A i \in 1..Len(sessions) : sessions[i] # "open"

\* the strategy C8 names for a declared Content-Length (-1: no Content-Length)
C8_Strategy(len) ==
    IF len = 0 THEN "zero"
    ELSE IF len >= 1 /\ len <= 10 * MiB THEN "direct"
    ELSE IF len > 50 * MiB THEN "proxy"
    ELSE "multipart"

\* C8: in auto mode the upload branch a PUT takes is the one its declared
\* Content-Length names: 0 zero-byte put, 1..10 MiB direct, above 50 MiB proxy,
\* anything else (also no Content-Length) multipart
C8_AutoStrategyByLength ==
    /\ (resp.method = "PUT" /\ resp.mode = "auto" /\ resp.strategy # "none")
          => resp.strategy = C8_Strategy(resp.len)
    /\ (put.pc # "idle" /\ put.mode = "auto")
          => put.strategy = C8_Strategy(put.len)

C8_Witness ==
    /\ resp.method = "PUT"
    /\ resp.mode = "auto"
    /\ resp.status = 201
    /\ resp.len = DIRECT_THRESHOLD + 1
    /\ resp.strategy = "multipart"
    /\ resp.uploadId # 0

(***************************************************************************)
(* Error answers of the request handlers (SpecDav)                         *)
(***************************************************************************)
\* C11: a GET whose range the backend rejects as InvalidRange is answered 416 with
\* Content-Range: bytes */total, total being the length the HEAD call returned
C11_InvalidRangeIs416 ==
    (/\ resp.method = "GET"
     /\ resp.fault = "none"
     /\ resp.len >= 0
     /\ resp.sentRange # NoRange
     /\ GetObject(resp.len, resp.sentRange).error = "InvalidRange")
    => resp.status = 416 /\ resp.contentRange = StarRange(resp.len)

\* the mounts whose path is the request path or an ancestor of it, segment by segment
CoveringMounts ==
    { m \in SeqToSet(rin.mounts) :
        LET ms == Segments(m)  ps == Segments(rin.path)
        IN  Len(ms) <= Len(ps) /\ \A i \in 1..Len(ms) : ms[i] = ps[i] }

\* the first segment below the request path of every mount path that lies below it
SegmentsBelow ==
    { Segments(m)[Len(Segments(rin.path)) + 1] :
        m \in { x \in SeqToSet(rin.mounts) :
                  LET ms == Segments(x)  ps == Segments(rin.path)
                  IN  Len(ms) > Len(ps) /\ \A i \in 1..Len(ps) : ms[i] = ps[i] } }

\* C12: PROPFIND on a path no mount matches answers 207 with a self entry and exactly
\* one collection per distinct first segment of the mount paths below the path
C12_VirtualListing ==
    (rout.impl # "none" /\ CoveringMounts = {})
    => /\ rout.status = 207
       /\ rout.self = CollectionPath(rin.path)
       /\ rout.directories = SegmentsBelow
       /\ rout.listedMounts = {}

C12_Witness ==
    /\ rout.impl = "propfind"
    /\ rin.path = P_root
    /\ SeqToSet(rin.mounts) = {P_ab, P_c}
    /\ rout.status = 207
    /\ rout.directories = {<<"a">>, <<"c">>}

\* C13: PROPFIND on a path that is neither inside a mount nor an ancestor of a mount
\* path is answered 404
C13_UnknownPathIs404 ==
    (rout.impl # "none" /\ CoveringMounts = {} /\ SegmentsBelow = {})
    => rout.status = 404

\* C14: a MKCOL whose check or creation of the parent marker fails answers 409 and
\* does not create the target's own marker
C14_ParentFailureIs409 ==
    (resp.method = "MKCOL" /\ resp.fault = "parent")
    => resp.status = 409 /\ resp.key \notin KeysOf(store)

\* the request path lies inside the mount of the modelled configuration
InDavMount(path) == path = DavMount \/ StartsWith(path, DavMount \o <<SL>>)

\* C17 as stated: every MKCOL with a body is answered 415 and creates nothing
C17_MkcolWithBodyIs415 ==
    [][(req.method = "MKCOL" /\ req.hasBody)
        => resp'.status = 415 /\ store' = store]_vars

\* C17: a MKCOL with a non-empty body is answered 415 when its path lies inside a
\* mount, the mount root included, and 404 when no mount resolves it; either way it
\* creates no object
C17_MkcolWithBodyRejected ==
    [][(req.method = "MKCOL" /\ req.hasBody)
        => /\ resp'.status = (IF InDavMount(req.path) THEN 415 ELSE 404)
           /\ store' = store]_vars

C17_Witness ==
    /\ resp.method = "MKCOL"
    /\ resp.path = DavMount
    /\ resp.status = 415
    /\ store = EmptyStore

\* C16: a DELETE of a mount root is answered 405 and deletes nothing
C16_DeleteMountRootIs405 ==
    [][(req.method = "DELETE" /\ req.path \in {DavMount, DavMount \o <<SL>>})
        => resp'.status = 405 /\ store' = store]_vars

C16_Witness ==
    /\ resp.method = "DELETE"
    /\ resp.path = DavMount \o <<SL>>
    /\ resp.status = 405
    /\ KeysOf(store) = {K_f, K_x}

\* C19: when the cache invalidation after a successful PUT, DELETE or MKCOL fails, the
\* request still answers its success status (201, 204, 201) and the change stays
C19_CacheFailureIsIgnored ==
    (resp.method \in {"PUT", "DELETE", "MKCOL"} /\ resp.fault = "cache" /\ resp.changed)
    => /\ resp.status = (IF resp.method = "DELETE" THEN 204 ELSE 201)
       /\ (resp.method = "DELETE") = (resp.key \notin KeysOf(store))

C18_ForcedModeFailureIsTerminal ==
    /\ (/\ resp.method = "PUT"
        /\ resp.mode \in {"direct", "proxy"}
        /\ resp.strategy # "none"
        /\ resp.fault \in {"put", "proxyStatus"})
       => resp.status >= 400 /\ resp.uploadId = 0 /\ sessions = << >>
    /\ put.mode \in {"direct", "proxy"} => put.pc = "idle" /\ sessions = << >>

C18_Witness ==
    /\ resp.method = "PUT"
    /\ resp.mode = "proxy"
    /\ resp.strategy = "proxy"
    /\ resp.fault = "put"
    /\ resp.status = 502
    /\ sessions = << >>

(***************************************************************************)
(* Properties of shared-file downloads (SpecViews)                         *)
(***************************************************************************)
Served == { p \in Downloads : dl[p].status \in {200, 302} }

\* C20: a file with max_views = N > 0 is served at most N times over any interleaving
\* of downloads; the download whose increment takes the count past N is answered 410
\* with the row deleted; every download that starts after the deletion is answered 404
C20_ViewLimit ==
    file.max_views > 0 =>
        /\ Cardinality(Served) <= file.max_views
        /\ \A p \in Downloads :
              (dl[p].pc = "done" /\ dl[p].past) => dl[p].status = 410 /\ ~file.exists
        /\ \A p \in Downloads :
              (dl[p].pc = "done" /\ dl[p].late) => dl[p].status = 404

(***************************************************************************)
(* Properties of presigned uploads (SpecUploads)                           *)
(***************************************************************************)
\* a commit request of upload f has been handled
CommitStep(f) ==
    /\ up[f].pc = "commit"
    /\ up'[f].pc = "commit"
    /\ <<up'[f], filesTable'[f]>> # <<up[f], filesTable[f]>>

\* the size the row of f holds once the commit with this body.size is accepted
SizeAfterCommit(f, size) == IF size > 0 THEN size ELSE filesTable[f].size

\* C21: when an authorized, complete commit of an existing upload would take the total
\* stored size of the configuration over its capacity, the commit is answered 4xx and
\* the provisional row is deleted, so it no longer counts toward the usage
C21_OverCapacityCommitRejected ==
    [][\A f \in Uploads :
         ( /\ CommitStep(f)
           /\ up'[f].valid
           /\ filesTable[f].state \in {"provisional", "committed"}
           /\ ExceedsLimit(quota.total_storage_bytes, TotalUsedExcept(filesTable, f),
                           SizeAfterCommit(f, up'[f].size)) )
         => /\ up'[f].status \in 400..499
            /\ filesTable'[f].state = "deleted"
            /\ TotalUsed(filesTable') = TotalUsedExcept(filesTable, f)]_vars

(***************************************************************************)
(* Properties of the initialization guard (SpecFetch)                      *)
(***************************************************************************)
PendingRuns == { k \in 1..Len(guard.runs) : guard.runs[k] = "pending" }

HasSucceeded == \E k \in 1..Len(guard.runs) : guard.runs[k] = "fulfilled"

\* request r has run fetch's synchronous prologue
FetchStep(r) == conn[r].pc = "new" /\ conn'[r].pc # "new"

\* C22: at most one initialization run is in flight at a time; a request that arrives
\* while a run is in progress starts none and waits for that run; once a run has
\* succeeded no request starts another
C22_SingleFlight ==
    [][ /\ Cardinality(PendingRuns') <= 1
        /\ \A r \in Requests :
             (FetchStep(r) /\ PendingRuns # {}) =>
                 /\ guard'.runs = guard.runs
                 /\ conn'[r].pc = "awaiting"
                 /\ conn'[r].promise \in PendingRuns
        /\ \A r \in Requests :
             (FetchStep(r) /\ HasSucceeded) => guard'.runs = guard.runs ]_vars

C22_Witness ==
    /\ Len(guard.runs) = 1
    /\ guard.runs[1] = "pending"
    /\ Cardinality({ r \in Requests : conn[r].pc = "awaiting" /\ conn[r].promise = 1 }) >= 2

\* C23: a failed run is not memoized: every request that waited on it is answered 500,
\* the next request after the failure starts a new run, after a successful run requests
\* are forwarded, and isInitializing is set only while a run is pending
C23_FailureNotMemoized ==
    [][ /\ \A r \in Requests :
             ( /\ conn[r].pc = "awaiting"
               /\ conn'[r].pc = "done"
               /\ guard.runs[conn[r].promise] = "rejected" )
             => conn'[r].status = 500 /\ ~conn'[r].forwarded
        /\ \A r \in Requests :
             ( /\ FetchStep(r)
               /\ guard.ENCRYPTION_SECRET
               /\ Len(guard.runs) > 0
               /\ guard.runs[Len(guard.runs)] = "rejected" )
             => /\ Len(guard'.runs) = Len(guard.runs) + 1
                /\ conn'[r].pc = "awaiting"
                /\ conn'[r].promise = Len(guard'.runs)
        /\ \A r \in Requests :
             (FetchStep(r) /\ HasSucceeded) => conn'[r].forwarded /\ conn'[r].status = 200
        /\ guard'.isInitializing => PendingRuns' # {} ]_vars

C23_Witness ==
    /\ guard.runs = <<"rejected", "fulfilled">>
    /\ \E r \in Requests : conn[r].promise = 1 /\ conn[r].status = 500
    /\ \E r \in Requests : conn[r].promise = 2 /\ conn[r].forwarded
    /\ \E r \in Requests : conn[r].promise = NoPromise /\ conn[r].forwarded

\* C30: a request is forwarded to the application only when the initialized flag was
\* set at its arrival or the run it awaited has succeeded
C30_ForwardedOnlyWhenInitialized ==
    \A r \in Requests :
        conn[r].forwarded =>
            /\ guard.isDbInitialized
            /\ conn[r].promise # NoPromise => guard.runs[conn[r].promise] = "fulfilled"

C30_Witness ==
    /\ \E r \in Requests : conn[r].forwarded /\ conn[r].promise # NoPromise
    /\ \E r \in Requests :
         /\ conn[r].status = 500
         /\ conn[r].promise # NoPromise
         /\ guard.runs[conn[r].promise] = "rejected"

(***************************************************************************)
(* Properties of the mount's last-used timestamp (SpecDav, SpecPut)        *)
(***************************************************************************)
\* C24: a request answered with an error because its backend call failed or found
\* nothing (an error that is not the failure of the bookkeeping after a successful
\* backend operation) has not updated the mount's last-used timestamp
C24_LastUsedOnlyAfterSuccess ==
    ( /\ resp.method \in {"PROPFIND", "GET", "HEAD", "PUT", "DELETE", "MKCOL"}
      /\ resp.status >= 400
      /\ resp.fault \notin {"cache", "touch"} )
    => ~resp.touched

(***************************************************************************)
(* Properties of the batches of a directory DELETE (SpecDav)               *)
(***************************************************************************)
RECURSIVE Flatten(_)
Flatten(bs) == IF bs = << >> THEN << >> ELSE bs[1] \o Flatten(Tail(bs))

\* C25: every DeleteObjects request of a directory DELETE carries at most
\* DeleteBatchSize keys and no key twice; when no request threw, the requests together
\* carry exactly the keys under the prefix, the directory marker included when it exists
C25_DeleteBatches ==
    [][(req.method = "DELETE" /\ resp'.method = "DELETE" /\ resp'.batches # << >>) =>
         LET bs  == resp'.batches
             all == Flatten(bs)
         IN  /\ \A i \in 1..Len(bs) : Len(bs[i]) \in 1..DeleteBatchSize
             /\ \A i, j \in 1..Len(all) : all[i] = all[j] => i = j
             /\ resp'.fault # "deleteThrows" =>
                  /\ SeqToSet(all) = KeysWithPrefix(store, resp'.key)
                  /\ (resp'.key \in KeysOf(store)) = (resp'.key \in SeqToSet(all))]_vars

C25_Witness ==
    /\ resp.method = "DELETE"
    /\ resp.status = 204
    /\ Len(resp.batches) >= 2
    /\ Len(resp.batches[1]) = DeleteBatchSize
    /\ resp.key \in SeqToSet(Flatten(resp.batches))
    /\ KeysWithPrefix(store, resp.key) = {}

(***************************************************************************)
(* Properties of the parent marker of a PUT (SpecPut)                      *)
(***************************************************************************)
\* a PUT has passed step 6 of handlePut: it was answered 201 at once, or its
\* multipart upload starts
PutPastParentStep ==
    /\ req.method = "PUT"
    /\ put.pc = "idle"
    /\ (resp'.method = "PUT" /\ resp'.status = 201) \/ put'.pc = "init"

\* C26: when a PUT writes (or starts to write) the file and the key has a parent
\* prefix, that prefix already held objects when the request arrived or its zero-byte
\* marker is in the bucket, so that it exists after every PUT answered 201
C26_ParentMarkerBeforeFile ==
    [][PutPastParentStep =>
         LET key    == IF put'.pc = "init" THEN put'.key ELSE resp'.key
             parent == PutParentPrefix(key)
         IN  parent # Empty =>
               \/ CheckDirectoryExists(store, parent)
               \/ (parent \in KeysOf(store') /\ store'[parent] = 0)]_vars

FileKeysAgree(df, mp, sub) ==
    /\ PutObjectKey(df, mp, sub) = GetObjectKey(df, mp, sub)
    /\ PutObjectKey(df, mp, sub) = DeletePath(df, mp, sub, FALSE)

\* the marker key of MKCOL is the prefix PROPFIND lists and directory DELETE removes
DirectoryKeysAgree(df, mp, sub) ==
    /\ MkcolDirectoryKey(df, mp, sub) = PropfindQueryPrefix(df, mp, sub)
    /\ MkcolDirectoryKey(df, mp, sub) = DeletePath(df, mp, sub, TRUE)

\* C28: once a handler has composed a key, the handlers agree on it: for a file
\* sub-path PUT, GET/HEAD and file DELETE compose the same key; for a directory
\* sub-path MKCOL's marker key is PROPFIND's prefix and directory DELETE's prefix
C28_HandlersAgreeOnKeys ==
    (kout.op # "none" /\ kin.sub # <<SL>>) =>
        IF EndsWith(kin.sub, <<SL>>)
        THEN DirectoryKeysAgree(kin.df, kin.mp, kin.sub)
        ELSE FileKeysAgree(kin.df, kin.mp, kin.sub)

(***************************************************************************)
(* Segment boundaries in mount matching (SpecResolve)                      *)
(***************************************************************************)
\* C29: the mount a request resolves to is a whole-segment ancestor of (or equal to)
\* the request path, and the synthetic listing of an unresolved path names only first
\* segments of mount paths that have the request path as a whole-segment ancestor
C29_SegmentBoundaries ==
    rout.impl # "none" =>
        /\ rout.found => rout.mount \in CoveringMounts
        /\ rout.directories \subseteq SegmentsBelow
        /\ \A m \in rout.listedMounts : Segments(m) = Segments(rin.path)

C29_Witness ==
    /\ rout.impl = "propfind"
    /\ rin.path = P_ax
    /\ SeqToSet(rin.mounts) = {P_a, P_axc}
    /\ ~rout.found
    /\ rout.directories = {<<"c">>}

====
